---- MODULE Spec2Model ----
(***************************************************************************)
(* Liberty Rider integration: the config flow's URL check, the coordinator *)
(* (construction, poll, snapshot) and the readers (sensors, GPS tracker).  *)
(*                                                                         *)
(* JSON values are tagged records: the field carrying the payload is named *)
(* after the type, so values of different types are unequal records.       *)
(***************************************************************************)
EXTENDS Integers, Sequences, FiniteSets, TLC

\* ------------------------------------------------------------------ bounds
\* At most this many fetches of one coordinator are outstanding in the model.
MaxInFlight == 2
\* Saturation point of the counter of consecutive failed polls.
MaxFailures == 2

\* ------------------------------------------------------------- JSON values
None == [t |-> "null"]
Num(k) == [t |-> "num", n |-> k]
Str(x) == [t |-> "str", s |-> x]
Obj(r) == [t |-> "obj", o |-> r]
List(q) == [t |-> "list", l |-> q]
\* The empty dict {}: a function with an empty domain.
EmptyDict == Obj(<<>>)

IsObj(v) == v.t = "obj"
IsStr(v) == v.t = "str"
IsNum(v) == v.t = "num"
IsList(v) == v.t = "list"

\* Python truthiness: None, 0, "", {} and [] are falsy.
Truthy(v) ==
    CASE v.t = "null" -> FALSE
      [] v.t = "num" -> v.n # 0
      [] v.t = "str" -> v.s # ""
      [] v.t = "obj" -> DOMAIN v.o # {}
      [] v.t = "list" -> Len(v.l) > 0
      [] OTHER -> TRUE

\* dict.get(k): the value, or None when the key is absent (d is a dict).
Get(d, k) == IF k \in DOMAIN d.o THEN d.o[k] ELSE None
\* dict.get(k, default)
GetOr(d, k, default) == IF k \in DOMAIN d.o THEN d.o[k] ELSE default

\* `"errors" in data` for a parsed body: key membership for a dict, element
\* membership for a list; any other type has no `in` (TypeError).
HasErrorsKey(body) ==
    CASE body.t = "obj" -> "errors" \in DOMAIN body.o
      [] body.t = "list" -> \E i \in 1..Len(body.l) : body.l[i] = Str("errors")
      [] OTHER -> FALSE

\* ---------------------------------------------------------------- state
VARIABLES
    phase,                \* "off" | "first_refresh" | "running" | "not_ready"
    share_url,            \* coordinator.share_url (sequence of characters)
    share_id,             \* coordinator.share_id
    data,                 \* coordinator.data: None or the ride object
    last_update_success,  \* coordinator.last_update_success
    last_exception,       \* why the last completed poll failed ("" if it did not)
    inflight,             \* fetches issued and not yet completed
    abandoned,            \* TRUE while the response of a request left at the timeout may still come
    registry,             \* entities handed to async_add_entities, by share
    last_good,            \* history: ride returned by the latest successful poll
    failures,             \* history: consecutive failed polls, saturating
    last_response,        \* history: what the network gave the last completed poll
    prev_data,            \* history: coordinator.data before the last completed poll
    parts,                \* history: the components the share URL was written from
    url,                  \* user_input[CONF_SHARE_URL] / config_entry.data[CONF_SHARE_URL]
    flow,                 \* outcome of async_step_user
    ctor,                 \* outcome of LibertyRiderCoordinator.__init__
    reading               \* what a reader last returned

vars == <<phase, share_url, share_id, data, last_update_success, last_exception,
          inflight, abandoned, registry, last_good, failures, last_response, prev_data, parts, url,
          flow, ctor, reading>>
pollVars == <<data, last_update_success, last_exception, last_good, failures,
              last_response, prev_data>>
coordVars == <<phase, share_url, share_id, pollVars, inflight, abandoned, registry,
               ctor>>

\* ------------------------------------------------------------ share URLs
\* A URL is a sequence of one-character strings.
BASE_URL == <<"h","t","t","p","s",":","/","/","r","i","d","e","r",".","l","i","v","e">>
OtherHost == <<"h","t","t","p","s",":","/","/","e","v","i","l",".","i","o">>

\* str.startswith
StartsWith(s, p) == Len(s) >= Len(p) /\ SubSeq(s, 1, Len(p)) = p

\* str.find(c, from): the first index >= from holding one of the characters cs, or 0.
FindAny(s, cs, from) ==
    LET hits == {i \in from..Len(s) : s[i] \in cs}
    IN  IF hits = {} THEN 0 ELSE CHOOSE i \in hits : \A j \in hits : i <= j
\* str.rfind(c): the last index holding c, or 0.
RFind(s, c) ==
    LET hits == {i \in 1..Len(s) : s[i] = c}
    IN  IF hits = {} THEN 0 ELSE CHOOSE i \in hits : \A j \in hits : i >= j

\* re.search(r'/a/([^/]+)', s): the leftmost "/a/" followed by at least one
\* character other than "/"; group 1 is the longest run of such characters.
MatchStarts(s) ==
    {i \in 1..(Len(s) - 3) :
        s[i] = "/" /\ s[i+1] = "a" /\ s[i+2] = "/" /\ s[i+3] # "/"}
HasMatch(s) == MatchStarts(s) # {}
Group1(s) ==
    LET i == CHOOSE k \in MatchStarts(s) : \A j \in MatchStarts(s) : k <= j
        stop == FindAny(s, {"/"}, i + 3)
    IN  SubSeq(s, i + 3, IF stop = 0 THEN Len(s) ELSE stop - 1)

\* urlparse(s).path. The scheme is cut at the first ":" when everything before
\* it is a scheme character; a following "//" starts the netloc, which ends at
\* the first "/", "?" or "#"; then the fragment, the query and (urlparse, not
\* urlsplit) the ";params" of the last segment are cut off.
SchemeChars ==
    {"a","b","c","d","e","f","g","h","i","j","k","l","m","n","o","p","q","r",
     "s","t","u","v","w","x","y","z","A","B","C","D","E","F","G","H","I","J",
     "K","L","M","N","O","P","Q","R","S","T","U","V","W","X","Y","Z",
     "0","1","2","3","4","5","6","7","8","9","+","-","."}
Digits == {"0","1","2","3","4","5","6","7","8","9"}
HasScheme(s) ==
    LET i == FindAny(s, {":"}, 1)
    IN  /\ i > 1
        /\ s[1] \in SchemeChars \ (Digits \cup {"+","-","."})
        /\ \A k \in 1..(i-1) : s[k] \in SchemeChars
Scheme(s) == IF HasScheme(s) THEN SubSeq(s, 1, FindAny(s, {":"}, 1) - 1) ELSE <<>>
DropScheme(s) ==
    IF HasScheme(s) THEN SubSeq(s, FindAny(s, {":"}, 1) + 1, Len(s)) ELSE s
\* urllib.parse.uses_params (schemes are compared in lower case; the URLs
\* here are written in lower case).
UsesParams ==
    {<<>>, <<"f","t","p">>, <<"h","d","l">>,
     <<"p","r","o","s","p","e","r","o">>, <<"h","t","t","p">>,
     <<"i","m","a","p">>, <<"h","t","t","p","s">>, <<"s","h","t","t","p">>,
     <<"r","t","s","p">>, <<"r","t","s","p","u">>, <<"s","i","p">>,
     <<"s","i","p","s">>, <<"m","m","s">>, <<"s","f","t","p">>,
     <<"t","e","l">>}
DropNetloc(s) ==
    IF StartsWith(s, <<"/","/">>)
    THEN LET e == FindAny(s, {"/","?","#"}, 3)
         IN  IF e = 0 THEN <<>> ELSE SubSeq(s, e, Len(s))
    ELSE s
CutAt(s, cs) ==
    LET i == FindAny(s, cs, 1) IN IF i = 0 THEN s ELSE SubSeq(s, 1, i - 1)
SplitParams(s) ==
    LET slash == RFind(s, "/")
        i == FindAny(s, {";"}, IF slash = 0 THEN 1 ELSE slash)
    IN  IF i = 0 THEN s ELSE SubSeq(s, 1, i - 1)
UrlPath(s) ==
    LET p == CutAt(CutAt(DropNetloc(DropScheme(s)), {"#"}), {"?"})
    IN  IF Scheme(s) \in UsesParams THEN SplitParams(p) ELSE p

\* async_step_user on a submitted share URL: the error shown, or "create_entry".
StepUserResult(u) ==
    IF ~StartsWith(u, BASE_URL) THEN "invalid_url"
    ELSE IF ~HasMatch(u) THEN "invalid_url_format"
    ELSE "create_entry"

\* The share-URL part of LibertyRiderCoordinator.__init__: one leading "@" is
\* dropped, the token is searched in the path of the URL only.
StripAt(u) == IF Len(u) > 0 /\ u[1] = "@" THEN Tail(u) ELSE u
\* Variant: the token is searched in the whole URL, as the configuration step does.
SearchedTextWholeUrl(u) == StripAt(u)
SearchedText(u) == UrlPath(StripAt(u))
CoordinatorInit(u) ==
    IF ~HasMatch(SearchedText(u))
    THEN [raised |-> "ValueError", share_url |-> StripAt(u), share_id |-> <<>>]
    ELSE [raised |-> "", share_url |-> StripAt(u),
          share_id |-> Group1(SearchedText(u))]

\* ------------------------------------------------------ share URL inputs
MaxTokenLen == 2
MaxTrailing == 2
TokenChars == {"K", "a"}
SeqsUpTo(S, n) == UNION {[1..k -> S] : k \in 0..n}
Tokens == SeqsUpTo(TokenChars, MaxTokenLen) \ {<<>>}
Langs == {<<"f","r">>, <<"e","n">>}
TrailSegs == {<<"x">>, <<"a">>}
Trails == SeqsUpTo(TrailSegs, MaxTrailing)
Queries ==
    {<<>>, <<"?","u","=","1">>, <<"?","r","=","/","a","/","Q">>,
     <<"#","/","a","/","F">>}
Hosts == {BASE_URL, OtherHost}
\* "token": /<lang>/a/<TOKEN>[/more]; "none": /<lang>; "bare": /<lang>/a;
\* "slash": /<lang>/a/; "other": /<lang>/b/<TOKEN>
Shapes == {"token", "none", "bare", "slash", "other"}
UrlParts ==
    {p \in [at : BOOLEAN, host : Hosts, lang : Langs, shape : Shapes,
            token : Tokens \cup {<<>>}, trail : Trails, query : Queries] :
        /\ (p.shape \in {"token", "other"}) <=> (p.token # <<>>)
        /\ (p.shape # "token") => (p.trail = <<>>)}

RECURSIVE JoinSegs(_)
JoinSegs(q) == IF q = <<>> THEN <<>> ELSE <<"/">> \o Head(q) \o JoinSegs(Tail(q))
PathOf(p) ==
    <<"/">> \o p.lang \o
    CASE p.shape = "token" -> <<"/","a","/">> \o p.token \o JoinSegs(p.trail)
      [] p.shape = "none" -> <<>>
      [] p.shape = "bare" -> <<"/","a">>
      [] p.shape = "slash" -> <<"/","a","/">>
      [] p.shape = "other" -> <<"/","b","/">> \o p.token
BuildUrl(p) == (IF p.at THEN <<"@">> ELSE <<>>) \o p.host \o PathOf(p) \o p.query

\* ------------------------------------------- configuration step, construction
NoResponse == [kind |-> "none"]
IdleCoordinator ==
    /\ phase = "off" /\ data = None /\ last_update_success = TRUE
    /\ last_exception = "" /\ inflight = 0 /\ last_good = None /\ failures = 0
    /\ abandoned = FALSE /\ registry = {}
    /\ last_response = NoResponse /\ prev_data = None
    /\ share_url = <<>> /\ share_id = <<>> /\ ctor = "none"
    /\ reading = [by |-> "nobody"]

InitUrl ==
    /\ parts \in UrlParts
    /\ url = BuildUrl(parts)
    /\ flow = "form"
    /\ IdleCoordinator

\* LibertyRiderConfigFlow.async_step_user with a user_input.
StepUser ==
    /\ flow = "form"
    /\ flow' = StepUserResult(url)
    /\ UNCHANGED <<coordVars, parts, url, reading>>

\* LibertyRiderCoordinator.__init__ applied to the share URL.
Construct ==
    /\ ctor = "none"
    /\ LET c == CoordinatorInit(url)
       IN  /\ ctor' = IF c.raised = "" THEN "ok" ELSE c.raised
           /\ share_url' = c.share_url
           /\ share_id' = c.share_id
    /\ UNCHANGED <<phase, pollVars, inflight, abandoned, registry, parts, url, flow,
                   reading>>

NextUrl == StepUser \/ Construct
SpecUrl == InitUrl /\ [][NextUrl]_vars

\* ------------------------------------------------- claims on the share URL
\* The URL as written: on the base domain once a leading "@" is dropped, and
\* with an /a/<token> segment in its path.
OnBaseDomain == parts.host = BASE_URL
HasTokenSegment == parts.shape = "token"

\* C4 as stated: once a leading "@" is dropped, a URL off the base domain is
\* refused with the invalid-URL error, a URL on the base domain whose path has
\* no /a/<token> segment with the invalid-format error, and no such URL gets
\* from the configuration step to a constructed coordinator.
C4_AsStated ==
    /\ (flow # "form" /\ ~OnBaseDomain) => flow = "invalid_url"
    /\ (flow # "form" /\ OnBaseDomain /\ ~HasTokenSegment) =>
            flow = "invalid_url_format"
    /\ (flow = "create_entry" /\ ctor # "none"
            /\ (~OnBaseDomain \/ ~HasTokenSegment)) => ctor = "ValueError"

Malformed == [t |-> "malformed"]

\* LibertyRiderCoordinator._async_update_data on one outcome of the POST: the
\* ride object returned, or the reason carried by the UpdateFailed raised (the
\* outer handler wraps every exception, the inner UpdateFailed included, and
\* keeps its text).
Failed(reason) == [ok |-> FALSE, reason |-> reason, ride |-> None]
Fetched(ride) == [ok |-> TRUE, reason |-> "", ride |-> ride]
\* Variant: the `"errors" in data` test is left out.
ParsedBodyNoErrorsTest(body) ==
    IF ~IsObj(body) THEN Failed("exception")
    ELSE LET d == GetOr(body, "data", EmptyDict)
         IN  IF ~IsObj(d) THEN Failed("exception")
             ELSE IF ~Truthy(Get(d, "ride")) THEN Failed("no_ride")
             ELSE Fetched(body.o["data"].o["ride"])
ParsedBody(body) ==
    IF body.t \notin {"obj", "list"} THEN Failed("exception")       \* `in` raises TypeError
    ELSE IF HasErrorsKey(body) THEN
        IF IsObj(body) THEN Failed("graphql_errors")
        ELSE Failed("exception")                      \* list["errors"]: TypeError
    ELSE IF ~IsObj(body) THEN Failed("exception")     \* list.get: AttributeError
    ELSE LET d == GetOr(body, "data", EmptyDict)
         IN  IF ~IsObj(d) THEN Failed("exception")    \* e.g. None.get: AttributeError
             ELSE IF ~Truthy(Get(d, "ride")) THEN Failed("no_ride")
             ELSE Fetched(body.o["data"].o["ride"])
\* Variant: the status of the response is not looked at.
AsyncUpdateDataAnyStatus(resp) ==
    CASE resp.kind = "timeout" -> Failed("timeout")
      [] resp.kind = "network_error" -> Failed("network_error")
      [] resp.kind = "http" ->
            IF resp.body = Malformed THEN Failed("exception")
            ELSE ParsedBody(resp.body)
AsyncUpdateData(resp) ==
    CASE resp.kind = "timeout" -> Failed("timeout")
      [] resp.kind = "network_error" -> Failed("network_error")
      [] resp.kind = "http" ->
            IF resp.status # 200 THEN Failed("http_status")
            ELSE IF resp.body = Malformed THEN Failed("exception")
            ELSE ParsedBody(resp.body)

\* Variant: the returned ride object is merged into the snapshot held
\* (dict.update), so fields the new object lacks keep their old values.
StoreSnapshotMerged(old, ride) ==
    IF ~IsObj(old) \/ ~IsObj(ride) THEN ride
    ELSE Obj([k \in DOMAIN old.o \cup DOMAIN ride.o |->
                IF k \in DOMAIN ride.o THEN ride.o[k] ELSE old.o[k]])
\* The snapshot kept after a successful poll: the returned ride object, whole.
StoreSnapshot(old, ride) == ride

\* The refresh around _async_update_data (DataUpdateCoordinator): a returned
\* value becomes coordinator.data and marks the update successful; UpdateFailed
\* leaves coordinator.data alone and marks it unsuccessful.
Bump(n) == IF n < MaxFailures THEN n + 1 ELSE n
ApplyPoll(resp) ==
    LET res == AsyncUpdateData(resp)
    IN  /\ data' = IF res.ok THEN StoreSnapshot(data, res.ride) ELSE data
        /\ last_update_success' = res.ok
        /\ last_exception' = res.reason
        /\ last_good' = IF res.ok THEN res.ride ELSE last_good
        /\ failures' = IF res.ok THEN 0 ELSE Bump(failures)
        /\ last_response' = resp
        /\ prev_data' = data

\* `async with async_timeout.timeout(10)`: at the expiry the coroutine is
\* cancelled at its await and leaves the `async with` blocks of the response
\* and of the session; the request is abandoned while its response may still
\* be on its way.
Abandon(resp) == abandoned' = (abandoned \/ resp.kind = "timeout")

\* ------------------------------------------------- what the server can send
Loc(la, lo) == Obj([latitude |-> Num(la), longitude |-> Num(lo)])
Pause(la, lo) == Obj([lastLocation |-> Loc(la, lo)])
User(name) == Obj([firstName |-> Str(name)])
RideActive ==
    Obj([state |-> Str("RIDE_ACTIVE"), currentBatteryLevel |-> Num(1),
         distance |-> Num(12345), duration |-> Num(125),
         currentLocation |-> Loc(48, 2), user |-> User("Ann")])
RidePaused ==
    Obj([state |-> Str("RIDE_PAUSED"), currentBatteryLevel |-> Num(0),
         distance |-> Num(20000), duration |-> Num(59), pauseDuration |-> Num(60),
         pauses |-> List(<<Pause(1, 1), Pause(2, 2)>>), user |-> User("Ann")])
RideStopped ==
    Obj([state |-> Str("RIDE_STOPPED"), distance |-> Num(30000),
         pauses |-> List(<<Pause(1, 1)>>), user |-> User("Ann")])
Rides == {RideActive, RidePaused, RideStopped}
GraphQLErrors == List(<<Str("PersistedQueryNotFound")>>)
GoodBody(r) == Obj([data |-> Obj([ride |-> r])])
ErrorsBody == Obj([errors |-> GraphQLErrors])
ErrorsAndRideBody == Obj([data |-> Obj([ride |-> RidePaused]), errors |-> GraphQLErrors])
Bodies ==
    {GoodBody(r) : r \in Rides}
    \cup {ErrorsBody,
          ErrorsAndRideBody,
          Obj([data |-> Obj([ride |-> None])]),
          Obj([data |-> Obj([ride |-> EmptyDict])]),
          Obj([data |-> None]),
          EmptyDict,
          List(<<Str("errors")>>),
          None,
          Malformed}
Http(st, b) == [kind |-> "http", status |-> st, body |-> b]
Responses ==
    {Http(200, b) : b \in Bodies}
    \cup {Http(204, GoodBody(RideActive)),
          Http(500, GoodBody(RideActive)),
          Http(500, ErrorsBody),
          Http(500, Malformed),
          [kind |-> "network_error"],
          [kind |-> "timeout"]}

\* ---------------------------------------------------------------- readers
\* A property either returns a value or raises; "fallthrough" marks an `if`
\* whose body did not return.
Ret(v) == [raised |-> "", value |-> v]
Raise(e) == [raised |-> e, value |-> None]
Fall == Raise("fallthrough")

\* str.lower() on the ride states the server sends.
Lower(x) ==
    CASE x = "RIDE_ACTIVE" -> "ride_active"
      [] x = "RIDE_PAUSED" -> "ride_paused"
      [] x = "RIDE_STOPPED" -> "ride_stopped"
      [] x = "RIDE_FINISHED" -> "ride_finished"
      [] OTHER -> x
\* f"entity.sensor.status.state.{state.lower()}"; .lower() exists on str only.
StateKey(v) ==
    IF IsStr(v) THEN Ret([t |-> "key", k |-> Lower(v.s)]) ELSE Raise("AttributeError")
STATE_NOT_HOME == [t |-> "key", k |-> "not_home"]

\* float(v): a number as it is, a string parsed, anything else a TypeError.
Float(v) ==
    CASE IsNum(v) -> Ret(v)
      [] IsStr(v) -> IF v.s = "7" THEN Ret(Num(7)) ELSE Raise("ValueError")
      [] OTHER -> Raise("TypeError")

\* `if loc and loc.get(key): return float(loc[key])`
LocationCoordinate(loc, key) ==
    IF ~Truthy(loc) THEN Fall
    ELSE IF ~IsObj(loc) THEN Raise("AttributeError")
    ELSE IF ~Truthy(Get(loc, key)) THEN Fall
    ELSE Float(loc.o[key])

\* pauses[-1]: the last element of a list; a dict has no key -1, a number is
\* not subscriptable, and the last character of a str has no .get.
LastPause(pauses) ==
    CASE IsList(pauses) -> Ret(pauses.l[Len(pauses.l)])
      [] IsObj(pauses) -> Raise("KeyError")
      [] IsStr(pauses) -> Raise("AttributeError")
      [] OTHER -> Raise("TypeError")

\* Variant: the first pause entry is read (pauses[0]).
FirstPause(pauses) ==
    CASE IsList(pauses) -> Ret(pauses.l[1])
      [] IsObj(pauses) -> Raise("KeyError")
      [] IsStr(pauses) -> Raise("AttributeError")
      [] OTHER -> Raise("TypeError")
\* The pause entry the paused/stopped branch reads.
ChosenPause(pauses) == LastPause(pauses)

\* The try block of LibertyRiderGPSTracker.latitude / .longitude (the two
\* differ in the coordinate's key only).
PausedCoordinate(d, key) ==
    LET pauses == GetOr(d, "pauses", List(<<>>))
    IN  IF ~Truthy(pauses) THEN Ret(None)
        ELSE LET last == ChosenPause(pauses)
             IN  IF last.raised # "" THEN last
                 ELSE IF ~IsObj(last.value) THEN Raise("AttributeError")
                 ELSE LET r == LocationCoordinate(
                                   GetOr(last.value, "lastLocation", EmptyDict), key)
                      IN  IF r = Fall THEN Ret(None) ELSE r
\* Variant: an active ride without a usable currentLocation goes on to the
\* pause history.
CoordinateBodyFallsBack(d, key) ==
    IF ~IsObj(d) THEN Raise("AttributeError")
    ELSE LET state == Get(d, "state")
             active == IF state = Str("RIDE_ACTIVE")
                       THEN LocationCoordinate(Get(d, "currentLocation"), key)
                       ELSE Fall
         IN  IF active # Fall THEN active
             ELSE IF state \in {Str("RIDE_ACTIVE"), Str("RIDE_PAUSED"),
                                Str("RIDE_STOPPED")}
             THEN PausedCoordinate(d, key)
             ELSE Ret(None)
CoordinateBody(d, key) ==
    IF ~IsObj(d) THEN Raise("AttributeError")
    ELSE LET state == Get(d, "state")
             active == IF state = Str("RIDE_ACTIVE")
                       THEN LocationCoordinate(Get(d, "currentLocation"), key)
                       ELSE Fall
         IN  IF active # Fall THEN active
             ELSE IF state \in {Str("RIDE_PAUSED"), Str("RIDE_STOPPED")}
             THEN PausedCoordinate(d, key)
             ELSE Ret(None)
Coordinate(d, key) ==
    IF ~Truthy(d) THEN Ret(None)
    ELSE LET r == CoordinateBody(d, key)
         IN  IF r.raised \in {"KeyError", "TypeError", "AttributeError", "ValueError"}
             THEN Ret(None)
             ELSE r
Latitude(d) == Coordinate(d, "latitude")
Longitude(d) == Coordinate(d, "longitude")

\* LibertyRiderGPSTracker.state: no try block around it.
TrackerState(d) ==
    IF ~Truthy(d) THEN Ret(STATE_NOT_HOME)
    ELSE IF ~IsObj(d) THEN Raise("AttributeError")
    ELSE IF Truthy(Get(d, "state")) THEN StateKey(Get(d, "state"))
    ELSE Ret(STATE_NOT_HOME)

\* x / k for a number x (true division, kept exact as a ratio); any other
\* operand type raises TypeError.
Ratio(v, k) == [t |-> "ratio", n |-> v.n, d |-> k]
\* int(x / 60): the quotient truncated toward zero.
Trunc(n, k) == IF n >= 0 THEN n \div k ELSE -((-n) \div k)
\* Variant: the quotient is rounded to the nearest minute.
MinutesRounded(v) ==
    IF IsNum(v) THEN Ret(Num(Trunc(v.n + 30, 60))) ELSE Raise("TypeError")
Minutes(v) == IF IsNum(v) THEN Ret(Num(Trunc(v.n, 60))) ELSE Raise("TypeError")
Kilometers(v) ==
    LET f == Float(v) IN IF f.raised # "" THEN f ELSE Ret(Ratio(f.value, 1000))

\* datetime.fromisoformat(start_time.replace("Z", "+00:00")) on the timestamps
\* the server sends; the instant is written with an explicit offset.
ReplaceZ(x) == IF x = "2024-01-01T10:00:00Z" THEN "2024-01-01T10:00:00+00:00" ELSE x
FromIso(x) ==
    IF x = "2024-01-01T10:00:00+00:00" THEN Ret([t |-> "datetime", iso |-> x])
    ELSE Raise("ValueError")
StartTime(v) == IF IsStr(v) THEN FromIso(ReplaceZ(v.s)) ELSE Raise("AttributeError")

\* The try block of LibertyRiderSensor.state for one entity_description.key.
SensorField(key) ==
    CASE key = "status" -> "state"
      [] key = "battery" -> "currentBatteryLevel"
      [] key = "distance" -> "distance"
      [] key = "duration" -> "duration"
      [] key = "pause_duration" -> "pauseDuration"
      [] key = "start_time" -> "startTime"
SensorBody(key, d) ==
    IF ~IsObj(d) THEN Raise("AttributeError")
    ELSE LET v == Get(d, SensorField(key))
         IN  IF v = None THEN Ret(None)
             ELSE CASE key = "status" -> StateKey(v)
                    [] key = "battery" -> Float(v)
                    [] key = "distance" -> Kilometers(v)
                    [] key = "duration" -> Minutes(v)
                    [] key = "pause_duration" -> Minutes(v)
                    [] key = "start_time" -> StartTime(v)
SensorState(key, d) ==
    IF ~Truthy(d) THEN Ret(None)
    ELSE LET r == SensorBody(key, d)
         IN  IF r.raised # "" THEN Ret(None) ELSE r
SensorKeys == {"status", "battery", "distance", "duration", "pause_duration", "start_time"}

\* LibertyRiderGPSTracker.extra_state_attributes: each attribute is added when
\* its field is truthy; any exception empties the whole result.
Rounded(v, k, digits) ==
    IF IsNum(v) THEN Ret([t |-> "round", n |-> v.n, d |-> k, digits |-> digits])
    ELSE Raise("TypeError")
Percent(v) ==
    IF IsNum(v) THEN Ret([t |-> "round", n |-> v.n * 100, d |-> 1, digits |-> 1])
    ELSE Raise("TypeError")
Attribute(name, d) ==
    CASE name = "ride_status" -> StateKey(Get(d, "state"))
      [] name = "distance_km" -> Rounded(Get(d, "distance"), 1000, 2)
      [] name = "duration_minutes" -> Rounded(Get(d, "duration"), 60, 1)
      [] name = "battery_level" -> Percent(Get(d, "currentBatteryLevel"))
AttributeField(name) ==
    CASE name = "ride_status" -> "state"
      [] name = "distance_km" -> "distance"
      [] name = "duration_minutes" -> "duration"
      [] name = "battery_level" -> "currentBatteryLevel"
AttributeNames == {"ride_status", "distance_km", "duration_minutes", "battery_level"}
ExtraStateAttributes(d) ==
    IF ~Truthy(d) \/ ~IsObj(d) THEN Ret(EmptyDict)
    ELSE LET present == {a \in AttributeNames : Truthy(Get(d, AttributeField(a)))}
         IN  IF \E a \in present : Attribute(a, d).raised # ""
             THEN Ret(EmptyDict)
             ELSE Ret(Obj([a \in present |-> Attribute(a, d).value]))

\* The first name LibertyRiderSensor.__init__ and LibertyRiderGPSTracker.__init__
\* read from the snapshot held when the entity is constructed (the ride objects
\* here carry a dict or nothing as user): "" without a truthy user,
\* user.get('firstName', '') otherwise, formatted as the f-string does.
FirstName(d) ==
    IF ~Truthy(d) \/ ~Truthy(Get(d, "user")) THEN ""
    ELSE LET name == GetOr(Get(d, "user"), "firstName", Str(""))
         IN  IF IsStr(name) THEN name.s ELSE "None"
\* f"liberty_rider_{description.key}_{user_firstname}"
SensorUniqueId(key, d) == "liberty_rider_" \o key \o "_" \o FirstName(d)
\* f"liberty_rider_{user_firstname}_gps"
TrackerUniqueId(d) == "liberty_rider_" \o FirstName(d) \o "_gps"
\* The entities async_setup_entry hands to async_add_entities for one
\* coordinator: one sensor per SENSOR_TYPES key and the tracker.
Entities(id, d) ==
    {[share_id |-> id, unique_id |-> SensorUniqueId(key, d)] : key \in SensorKeys}
    \cup {[share_id |-> id, unique_id |-> TrackerUniqueId(d)]}

\* Entities exist once async_setup_entry has added them. A state write reads
\* the entity's properties one after the other without yielding.
ReadSensor(key) ==
    /\ phase = "running"
    /\ reading' = [by |-> key, available |-> last_update_success,
                   state |-> SensorState(key, data)]
    /\ UNCHANGED <<coordVars, parts, url, flow>>
\* Variant: reading the tracker posts a request of its own.
ReadTrackerFetching ==
    /\ phase = "running"
    /\ inflight < MaxInFlight
    /\ inflight' = inflight + 1
    /\ reading' = [by |-> "tracker", available |-> last_update_success,
                   state |-> TrackerState(data),
                   latitude |-> Latitude(data),
                   longitude |-> Longitude(data),
                   attributes |-> ExtraStateAttributes(data)]
    /\ UNCHANGED <<phase, share_url, share_id, pollVars, abandoned, registry, ctor,
                   parts, url, flow>>
ReadTracker ==
    /\ phase = "running"
    /\ reading' = [by |-> "tracker", available |-> last_update_success,
                   state |-> TrackerState(data),
                   latitude |-> Latitude(data),
                   longitude |-> Longitude(data),
                   attributes |-> ExtraStateAttributes(data)]
    /\ UNCHANGED <<coordVars, parts, url, flow>>

\* ------------------------------------------------ setup, polls (Spec)
\* The config entries the configuration step has created.
Fr == <<"f","r">>
EntryParts ==
    {p \in UrlParts :
        /\ ~p.at /\ p.lang = Fr /\ p.trail = <<>>
        /\ p.token \in {<<>>, <<"K">>}
        /\ p.shape \in {"token", "none"}
        /\ p.query \in {<<>>, <<"?","r","=","/","a","/","Q">>}
        /\ StepUserResult(BuildUrl(p)) = "create_entry"}

\* Entries of several shares: plain URLs with different tokens.
ShareTokens == {<<"K">>, <<"a">>, <<"K","a">>}
ShareParts ==
    {p \in UrlParts :
        /\ ~p.at /\ p.host = BASE_URL /\ p.lang = Fr /\ p.shape = "token"
        /\ p.token \in ShareTokens /\ p.trail = <<>> /\ p.query = <<>>
        /\ StepUserResult(BuildUrl(p)) = "create_entry"}

\* LibertyRiderCoordinator(hass, config_entry) for each of these entries.
EntryUrls == {BuildUrl(p) : p \in EntryParts \cup ShareParts}
ConstructedFrom == [u \in EntryUrls |-> CoordinatorInit(u)]

Init ==
    /\ parts \in EntryParts
    /\ url = BuildUrl(parts)
    /\ flow = "create_entry"
    /\ IdleCoordinator

\* async_setup_entry up to the first refresh: the coordinator is constructed
\* (a fresh DataUpdateCoordinator: no data, last_update_success True) and
\* async_config_entry_first_refresh issues the first fetch; an exception of the
\* constructor ends the setup with ConfigEntryNotReady.
Setup ==
    /\ phase \in {"off", "not_ready"}
    /\ LET c == ConstructedFrom[url]
       IN  /\ share_url' = c.share_url
           /\ share_id' = c.share_id
           /\ ctor' = IF c.raised = "" THEN "ok" ELSE c.raised
           /\ phase' = IF c.raised = "" THEN "first_refresh" ELSE "not_ready"
           /\ inflight' = IF c.raised = "" THEN 1 ELSE 0
    /\ data' = None
    /\ last_update_success' = TRUE
    /\ last_exception' = ""
    /\ last_good' = None
    /\ failures' = 0
    /\ last_response' = NoResponse
    /\ prev_data' = None
    /\ UNCHANGED <<abandoned, registry, parts, url, flow, reading>>

\* The first refresh completes: on success the entities are added, on failure
\* async_config_entry_first_refresh raises and the setup ends not ready.
CompleteFirstRefresh(resp) ==
    /\ phase = "first_refresh"
    /\ inflight = 1
    /\ ApplyPoll(resp)
    /\ Abandon(resp)
    /\ phase' = IF AsyncUpdateData(resp).ok THEN "running" ELSE "not_ready"
    /\ inflight' = 0
    /\ registry' = IF AsyncUpdateData(resp).ok
                   THEN registry \cup Entities(share_id, AsyncUpdateData(resp).ride)
                   ELSE registry
    /\ UNCHANGED <<share_url, share_id, ctor, parts, url, flow, reading>>

\* Variant: no refresh is started while the last update is marked failed.
StartFetchWhenAvailable ==
    /\ phase = "running"
    /\ last_update_success
    /\ inflight < MaxInFlight
    /\ inflight' = inflight + 1
    /\ UNCHANGED <<phase, share_url, share_id, pollVars, abandoned, registry, ctor,
                   parts, url, flow, reading>>
\* A refresh starts a fetch: _async_update_data issues its POST.
StartFetch ==
    /\ phase = "running"
    /\ inflight < MaxInFlight
    /\ inflight' = inflight + 1
    /\ UNCHANGED <<phase, share_url, share_id, pollVars, abandoned, registry, ctor,
                   parts, url, flow, reading>>
\* The update_interval timer of the coordinator fires.
IntervalTick == StartFetch
\* LibertyRiderSensor.async_update: coordinator.async_request_refresh()
SensorAsyncUpdate == StartFetch
\* LibertyRiderGPSTracker.async_update: coordinator.async_request_refresh()
TrackerAsyncUpdate == StartFetch

\* Variant: a completed poll stores the share URL again, the "@" stripping of
\* the constructor applied to it once more as a cut of its first character.
CompleteRefreshRewritesShare(resp) ==
    /\ phase = "running"
    /\ inflight > 0
    /\ ApplyPoll(resp)
    /\ Abandon(resp)
    /\ inflight' = inflight - 1
    /\ share_url' = Tail(share_url)
    /\ share_id' = IF AsyncUpdateData(resp).ok THEN share_id ELSE <<>>
    /\ UNCHANGED <<phase, registry, ctor, parts, url, flow, reading>>
\* A fetch of a running coordinator completes.
CompleteRefresh(resp) ==
    /\ phase = "running"
    /\ inflight > 0
    /\ ApplyPoll(resp)
    /\ Abandon(resp)
    /\ inflight' = inflight - 1
    /\ UNCHANGED <<phase, share_url, share_id, registry, ctor, parts, url, flow,
                   reading>>

\* Variant: the response of an abandoned request is handled as a poll result.
AbandonedResponseApplied(resp) == ApplyPoll(resp)
\* The response of an abandoned request reaches a closed session: no line of
\* _async_update_data runs on it.
AbandonedResponse(resp) == UNCHANGED pollVars
LateResponses == {Http(200, GoodBody(RideActive)), Http(200, GoodBody(RidePaused))}
\* Responses of other abandoned requests may remain on their way.
LateResponse(resp) ==
    /\ abandoned
    /\ abandoned' \in BOOLEAN
    /\ AbandonedResponse(resp)
    /\ UNCHANGED <<phase, share_url, share_id, inflight, registry, ctor, parts, url,
                   flow, reading>>

Next ==
    \/ Setup
    \/ \E resp \in Responses : CompleteFirstRefresh(resp)
    \/ IntervalTick
    \/ SensorAsyncUpdate
    \/ TrackerAsyncUpdate
    \/ \E resp \in Responses : CompleteRefresh(resp)
    \/ \E resp \in LateResponses : LateResponse(resp)
    \/ \E key \in SensorKeys : ReadSensor(key)
    \/ ReadTracker
Spec == Init /\ [][Next]_vars
\* The refresh triggers are periodic (the interval timer, the polling of the
\* entities) and a setup that ended not ready is tried again.
NextPoll ==
    \/ Setup
    \/ \E resp \in Responses : CompleteFirstRefresh(resp)
    \/ StartFetch
    \/ \E resp \in Responses : CompleteRefresh(resp)
    \/ \E resp \in LateResponses : LateResponse(resp)
FairSpec == Init /\ [][NextPoll]_vars /\ WF_vars(StartFetch) /\ WF_vars(Setup)

\* ----------------------------------------------------- claims on the poll
HasTopLevelErrors(body) == IsObj(body) /\ "errors" \in DOMAIN body.o
HasRideObject(body) ==
    /\ IsObj(body) /\ "data" \in DOMAIN body.o /\ IsObj(body.o["data"])
    /\ "ride" \in DOMAIN body.o["data"].o /\ body.o["data"].o["ride"] # None
\* The failures the specification lists: non-2xx status, top-level errors,
\* missing ride object, network error, malformed body, timeout.
ListedFailure(resp) ==
    \/ resp.kind \in {"network_error", "timeout"}
    \/ /\ resp.kind = "http"
       /\ \/ resp.status \notin 200..299
          \/ resp.body = Malformed
          \/ HasTopLevelErrors(resp.body)
          \/ ~HasRideObject(resp.body)
PollCompleted == last_response # NoResponse

\* C1: a poll that fails (non-2xx status, top-level errors, missing ride
\* object, network error, malformed body, timeout) leaves the snapshot as it
\* was, equal to the ride object of the latest successful poll (empty if there
\* was none), and leaves availability false.
C1_FailedPollKeepsSnapshot ==
    (PollCompleted /\ ListedFailure(last_response)) =>
        /\ data = prev_data
        /\ data = last_good
        /\ last_update_success = FALSE
\* A poll failed after an earlier one had succeeded, twice in a row.
C1_Witness ==
    /\ PollCompleted /\ ListedFailure(last_response)
    /\ data \in Rides /\ failures = MaxFailures /\ ~last_update_success

\* C3 as stated: whenever the body of the response carries a top-level
\* errors field, the poll is classified as a protocol failure (GraphQL errors)
\* and the snapshot is not replaced.
C3_AsStated ==
    (PollCompleted /\ last_response.kind = "http"
        /\ HasTopLevelErrors(last_response.body)) =>
        /\ last_exception = "graphql_errors"
        /\ data = prev_data
\* C3 amended: when the response has status 200 and its body is an object
\* with a top-level errors field, the poll fails with the GraphQL-errors
\* reason (not the HTTP-status, no-ride or generic reason), availability is
\* false and the snapshot is not replaced, also when data.ride is present.
C3_ErrorsAreProtocolFailure ==
    (PollCompleted /\ last_response.kind = "http" /\ last_response.status = 200
        /\ HasTopLevelErrors(last_response.body)) =>
        /\ last_exception = "graphql_errors"
        /\ data = prev_data
        /\ last_update_success = FALSE
\* A body with both errors and a ride object arrived while another ride was held.
C3_Witness ==
    /\ last_response = Http(200, ErrorsAndRideBody)
    /\ last_exception = "graphql_errors"
    /\ data = RideActive

\* C6: the snapshot is empty or one whole ride object as a single poll
\* returned it, and what a reader reads in one pass (state, latitude,
\* longitude, attributes) all comes from one such object.
C6_SnapshotIsOneWholeRide ==
    /\ data = None \/ data \in Rides
    /\ (reading.by = "tracker") =>
          \E r \in Rides :
              /\ reading.state = TrackerState(r)
              /\ reading.latitude = Latitude(r)
              /\ reading.longitude = Longitude(r)
              /\ reading.attributes = ExtraStateAttributes(r)
\* The tracker was read after a second successful poll replaced the first ride.
C6_Witness ==
    /\ data = RidePaused /\ prev_data = RideActive
    /\ reading.by = "tracker"
    /\ reading.latitude = Latitude(RidePaused)
    /\ reading.attributes = ExtraStateAttributes(RidePaused)

\* C9: no poll failure is permanent. A completing fetch that brings a ride
\* object (status 200, no errors) makes the coordinator available with that
\* ride as snapshot whatever came before, and after a failed poll a new fetch
\* is issued again.
BringsRide(resp) ==
    /\ resp.kind = "http" /\ resp.status = 200
    /\ ~HasTopLevelErrors(resp.body) /\ HasRideObject(resp.body)
    /\ Truthy(resp.body.o["data"].o["ride"])
C9_NoFailureIsPermanent ==
    /\ [][(inflight' = inflight - 1 /\ BringsRide(last_response')) =>
            (last_update_success' /\ data' = last_response'.body.o["data"].o["ride"])]_vars
    /\ (failures > 0 /\ inflight = 0) ~> (inflight > 0)
\* A fetch is in flight after as many consecutive failures as are counted.
C9_Witness == phase = "running" /\ failures = MaxFailures /\ inflight > 0

\* ------------------------------------- readers over the snapshots (SpecReader)
\* A key whose option is Absent is left out of the object.
MaxPauses == 2
Absent == [t |-> "absent"]
MakeObj(f) == Obj([k \in {x \in DOMAIN f : f[x] # Absent} |-> f[k]])
StateOptions ==
    {Absent, Str("RIDE_ACTIVE"), Str("RIDE_PAUSED"), Str("RIDE_STOPPED"),
     Str("RIDE_FINISHED"), Num(1)}
LocationOptions ==
    {Absent, None, Loc(48, 2), Loc(0, 2), Loc(48, 0),
     Obj([latitude |-> Num(48)]), Obj([longitude |-> Num(2)]),
     Obj([latitude |-> Str("north"), longitude |-> Num(2)]),
     Obj([latitude |-> Str("7"), longitude |-> Num(2)]),
     Str("here")}
PauseEntries ==
    {Pause(1, 1), Pause(2, 2), EmptyDict,
     Obj([lastLocation |-> Obj([latitude |-> Num(3)])]), None}
PausesOptions ==
    {Absent, None, Str("x")} \cup {List(q) : q \in SeqsUpTo(PauseEntries, MaxPauses)}
LocationSnapshots ==
    {MakeObj([state |-> st, currentLocation |-> cl, pauses |-> ps]) :
        st \in StateOptions, cl \in LocationOptions, ps \in PausesOptions}
MetricSnapshots ==
    {MakeObj([state |-> st, currentBatteryLevel |-> b, distance |-> di,
              duration |-> du, pauseDuration |-> pd, startTime |-> ts]) :
        st \in {Str("RIDE_ACTIVE"), Num(1)},
        b \in {Absent, Num(0), Num(1), Str("full")},
        di \in {Absent, Num(12345), Str("far")},
        du \in {Absent, Num(0), Num(59), Num(125)},
        pd \in {Absent, Num(60), List(<<>>)},
        ts \in {Absent, Str("2024-01-01T10:00:00Z"), Str("soon"), Num(5)}}
\* Numbers of seconds around the minute boundaries.
SecondsValues == {0, 1, 59, 60, 61, 119, 120, 125, 3599, 3600}
SecondsOptions == {Absent} \cup {Num(k) : k \in SecondsValues}
DurationSnapshots ==
    {MakeObj([state |-> Str("RIDE_PAUSED"), duration |-> du, pauseDuration |-> pd]) :
        du \in SecondsOptions, pd \in SecondsOptions}
\* A ride object is stored only when it is truthy.
Snapshots ==
    {d \in LocationSnapshots \cup MetricSnapshots \cup DurationSnapshots : Truthy(d)}

ValidParts ==
    [at |-> FALSE, host |-> BASE_URL, lang |-> Fr, shape |-> "token",
     token |-> <<"K">>, trail |-> <<>>, query |-> <<>>]
\* A coordinator whose latest successful poll returned the snapshot.
InitReader ==
    /\ parts = ValidParts
    /\ url = BuildUrl(parts)
    /\ flow = "create_entry"
    /\ phase = "running"
    /\ share_url = CoordinatorInit(url).share_url
    /\ share_id = CoordinatorInit(url).share_id
    /\ ctor = "ok"
    /\ data \in Snapshots
    /\ last_update_success = TRUE
    /\ last_exception = ""
    /\ inflight = 0
    /\ abandoned = FALSE
    /\ registry = Entities(CoordinatorInit(url).share_id, data)
    /\ last_good = data
    /\ failures = 0
    /\ last_response = Http(200, GoodBody(data))
    /\ prev_data = None
    /\ reading = [by |-> "nobody"]
NextReader ==
    \/ \E key \in SensorKeys : ReadSensor(key)
    \/ ReadTracker
SpecReader == InitReader /\ [][NextReader]_vars

\* ------------------------------------------------- claims on the readers
PausedOrStopped(d) == Get(d, "state") \in {Str("RIDE_PAUSED"), Str("RIDE_STOPPED")}
HasPauseHistory(d) ==
    "pauses" \in DOMAIN d.o /\ IsList(d.o["pauses"]) /\ Len(d.o["pauses"].l) > 0
LastEntry(d) == d.o["pauses"].l[Len(d.o["pauses"].l)]
\* The coordinate written in the lastLocation of a pause entry, None if none.
EntryCoordinate(e, key) ==
    IF IsObj(e) /\ "lastLocation" \in DOMAIN e.o /\ IsObj(e.o["lastLocation"])
          /\ key \in DOMAIN e.o["lastLocation"].o
    THEN e.o["lastLocation"].o[key]
    ELSE None

\* C7: while paused or stopped with a pause history, latitude and longitude
\* are those of the last pause entry or absent, never an earlier entry's; with
\* no lastLocation coordinates in the last entry both are absent.
C7_LastPauseOnly ==
    (reading.by = "tracker" /\ PausedOrStopped(data) /\ HasPauseHistory(data)) =>
        /\ reading.latitude.value \in
                {None, EntryCoordinate(LastEntry(data), "latitude")}
        /\ reading.longitude.value \in
                {None, EntryCoordinate(LastEntry(data), "longitude")}
\* Stopped, two pauses at (1,1) and (2,2): the tracker is at (2,2).
C7_Witness ==
    /\ reading.by = "tracker"
    /\ Get(data, "state") = Str("RIDE_STOPPED")
    /\ Get(data, "pauses") = List(<<Pause(1, 1), Pause(2, 2)>>)
    /\ reading.latitude = Ret(Num(2)) /\ reading.longitude = Ret(Num(2))

\* C8 as stated: the tracker's latitude is present if and only if its
\* longitude is.
C8_AsStated ==
    (reading.by = "tracker") =>
        ((reading.latitude.value = None) <=> (reading.longitude.value = None))

\* C10 as stated: no property read through the snapshot raises.
C10_AsStated ==
    /\ (reading.by # "nobody") => reading.state.raised = ""
    /\ (reading.by = "tracker") =>
          /\ reading.latitude.raised = ""
          /\ reading.longitude.raised = ""
          /\ reading.attributes.raised = ""

\* ------------------------------------------------ claims on the timeout
\* C11: when the 10-second timeout expires the poll ends as a failure
\* (availability false, snapshot retained) and its request no longer counts as
\* in flight; a response that arrives later for an abandoned request changes
\* neither the snapshot nor the availability and completes no fetch.
C11_TimeoutAbandonsRequest ==
    [][/\ (inflight' < inflight /\ last_response'.kind = "timeout") =>
             /\ inflight' = inflight - 1
             /\ data' = data
             /\ last_update_success' = FALSE
             /\ last_exception' = "timeout"
       /\ (abandoned /\ ~abandoned') =>
             /\ data' = data
             /\ last_update_success' = last_update_success
             /\ inflight' = inflight]_vars
\* A ride was held, the next poll timed out, and the response of the abandoned
\* request has arrived since.
C11_Witness ==
    /\ last_response.kind = "timeout" /\ ~abandoned /\ inflight = 0
    /\ data \in Rides /\ ~last_update_success

\* ------------------------------------------- claims on the duration sensors
\* C12: for a non-negative integer number of seconds s in the snapshot the
\* duration and the pause-duration sensors expose exactly floor(s / 60), a
\* number also when s is 0, and they expose nothing when the field is missing.
C12_WholeMinutes ==
    \A key \in {"duration", "pause_duration"} :
        (reading.by = key) =>
            LET v == Get(data, SensorField(key))
                m == reading.state.value
            IN  /\ reading.state.raised = ""
                /\ (IsNum(v) /\ v.n >= 0) =>
                        /\ IsNum(m)
                        /\ 60 * m.n <= v.n
                        /\ v.n < 60 * (m.n + 1)
                /\ (SensorField(key) \notin DOMAIN data.o) => m = None
\* 0 seconds of pause read as 0 minutes next to a duration of 125 seconds.
C12_Witness ==
    /\ reading.by = "pause_duration"
    /\ Get(data, "pauseDuration") = Num(0)
    /\ Get(data, "duration") = Num(125)
    /\ reading.state = Ret(Num(0))

\* ------------------------------------------- claims on success and failure
\* C13 as stated: a completed poll is a success (availability true, the
\* snapshot the ride object of the response) exactly when the status is 2xx,
\* the body has no top-level errors field and carries a ride object under
\* data.ride.
MeetsSuccessConditions(resp) ==
    /\ resp.kind = "http" /\ resp.status \in 200..299
    /\ resp.body # Malformed
    /\ ~HasTopLevelErrors(resp.body) /\ HasRideObject(resp.body)
    /\ Truthy(resp.body.o["data"].o["ride"])
C13_AsStated ==
    PollCompleted =>
        /\ last_update_success <=> MeetsSuccessConditions(last_response)
        /\ last_update_success => data = last_response.body.o["data"].o["ride"]

\* ------------------------------------------------------- claims on the setup
\* C14 as stated: the setup ends not ready only when the constructor refused
\* the share URL; a poll that fails, the first one included, leaves the
\* entities registered and only makes them unavailable.
C14_AsStated ==
    /\ (phase = "not_ready") => ctor = "ValueError"
    /\ (PollCompleted /\ ~last_update_success) => phase = "running"

\* --------------------------------------------- claims on the location source
\* What a location object can give for one coordinate: nothing, or the number
\* its field converts to.
SourceValues(loc, key) ==
    {None} \cup (IF IsObj(loc) /\ key \in DOMAIN loc.o
                 THEN {Float(loc.o[key]).value} ELSE {})
PauseValues(d, key) ==
    LET ps == Get(d, "pauses")
    IN  {None} \cup (IF IsList(ps)
                     THEN {EntryCoordinate(ps.l[i], key) : i \in 1..Len(ps.l)}
                     ELSE {})
\* C15: the state alone selects the source of the location: currentLocation
\* while RIDE_ACTIVE (never the pause history), the pause history while
\* RIDE_PAUSED or RIDE_STOPPED (never currentLocation), and no location for
\* any other state, a missing or unknown one included.
C15_SourceByState ==
    (reading.by = "tracker") =>
        \A key \in {"latitude", "longitude"} :
            LET got == IF key = "latitude" THEN reading.latitude.value
                       ELSE reading.longitude.value
                st == Get(data, "state")
            IN  /\ (st = Str("RIDE_ACTIVE")) =>
                        got \in SourceValues(Get(data, "currentLocation"), key)
                /\ (st \in {Str("RIDE_PAUSED"), Str("RIDE_STOPPED")}) =>
                        got \in PauseValues(data, key)
                /\ (st \notin {Str("RIDE_ACTIVE"), Str("RIDE_PAUSED"),
                               Str("RIDE_STOPPED")}) => got = None
\* An active ride with a pause history and no currentLocation has no location.
C15_Witness ==
    /\ reading.by = "tracker"
    /\ Get(data, "state") = Str("RIDE_ACTIVE")
    /\ "currentLocation" \notin DOMAIN data.o
    /\ Get(data, "pauses") = List(<<Pause(1, 1)>>)
    /\ reading.latitude = Ret(None) /\ reading.longitude = Ret(None)

\* ------------------------------------------------- claims on frame effects
\* C16: a read of the sensor state, the tracker state, latitude, longitude,
\* attributes or availability changes neither the snapshot nor the
\* availability nor anything else the coordinator holds and issues no request;
\* a request is issued only by a step of the coordinator's poll.
C16_ReadersOnlyRead ==
    [][/\ (reading' # reading) =>
             /\ data' = data
             /\ last_update_success' = last_update_success
             /\ last_exception' = last_exception
             /\ inflight' = inflight
             /\ share_id' = share_id /\ share_url' = share_url
       /\ (inflight' > inflight) => reading' = reading]_vars
\* The tracker was read while a fetch was in flight after a failed poll.
C16_Witness ==
    /\ reading.by = "tracker" /\ reading.available = FALSE
    /\ inflight > 0 /\ data \in Rides /\ ~last_update_success

\* C17: once the constructor has set the share token and the cleaned share
\* URL, no successful poll, failed poll, refresh request, late response or read
\* changes them (a setup tried again constructs them anew from the same
\* entry, with the same result).
C17_ShareReferenceStable ==
    [][(ctor = "ok") => (share_id' = share_id /\ share_url' = share_url)]_vars
\* A running coordinator after a success, repeated failures and a read still
\* holds the token of its entry.
C17_Witness ==
    /\ phase = "running" /\ ctor = "ok" /\ share_id = parts.token
    /\ share_url = url
    /\ failures = MaxFailures /\ last_good \in Rides /\ reading.by = "tracker"

\* ----------------------------- claims on the two readings of the share URL
\* C18 as stated: a share URL for which the configuration step creates an
\* entry is also accepted by the constructor of the coordinator.
C18_AsStated ==
    (flow = "create_entry" /\ ctor # "none") => ctor = "ok"

\* ------------------------------------------- several shares (SpecShares)
\* One async_setup_entry runs per config entry, each with a coordinator of its
\* own; the coordinators share nothing, the entities all go to one platform.
\* The model follows the coordinator of the entry being set up.
MaxShares == 2
RideOf(name) ==
    MakeObj([state |-> Str("RIDE_ACTIVE"), currentLocation |-> Loc(48, 2),
             user |-> name])
ShareRides ==
    {RideOf(u) : u \in {Absent, User("Ann"), User("Bob"), EmptyDict,
                         Obj([firstName |-> None])}}
    \cup {RidePaused}
ShareResponses ==
    {Http(200, GoodBody(r)) : r \in ShareRides}
    \cup {Http(500, ErrorsBody), [kind |-> "timeout"]}
SharesSetUp == {e.share_id : e \in registry}

InitShares ==
    /\ parts \in ShareParts
    /\ url = BuildUrl(parts)
    /\ flow = "create_entry"
    /\ IdleCoordinator

\* The setup of the entry of another share begins.
NextEntry ==
    /\ phase = "running"
    /\ Cardinality(SharesSetUp) < MaxShares
    /\ parts' \in {p \in ShareParts : p.token \notin SharesSetUp}
    /\ url' = BuildUrl(parts')
    /\ phase' = "off" /\ data' = None /\ last_update_success' = TRUE
    /\ last_exception' = "" /\ inflight' = 0 /\ last_good' = None /\ failures' = 0
    /\ last_response' = NoResponse /\ prev_data' = None
    /\ share_url' = <<>> /\ share_id' = <<>> /\ ctor' = "none"
    /\ reading' = [by |-> "nobody"]
    /\ UNCHANGED <<abandoned, registry, flow>>

NextShares ==
    \/ Setup
    \/ \E resp \in ShareResponses : CompleteFirstRefresh(resp)
    \/ NextEntry
SpecShares == InitShares /\ [][NextShares]_vars

\* C19 as stated: entities of two shares with different tokens never have the
\* same unique id, whatever the polls returned: the same first name, or no
\* user in the first poll, included.
C19_AsStated ==
    \A e1 \in registry : \A e2 \in registry :
        (e1.share_id # e2.share_id) => (e1.unique_id # e2.unique_id)

====
